---- MODULE Spec2Model ----
(***************************************************************************)
(* Model of api/generate-audio.js: the HTTP handler and the WebSocket      *)
(* synthesis session (generateAudioWithTimestamps), header-credential      *)
(* revision (src/api/generate-audio.js lines 155-293).                     *)
(***************************************************************************)
EXTENDS Integers, Sequences, FiniteSets, TLC

VARIABLES
    req,          \* req[r]: the inbound request (method, body) once it arrived
    hpc,          \* hpc[r]: position of handler(req, res)
    responses,    \* responses[r]: sequence of responses sent through res
    findCalls,    \* findCalls[r]: number of airtable.find calls
    script,       \* script[r]: value of record.get("Script")
    sock,         \* sock[r]: state of elevenlabsSocket
    events,       \* events[r]: socket events emitted so far (history)
    sent,         \* sent[r]: messages sent with elevenlabsSocket.send
    inbox,        \* inbox[r]: payloads handed to the 'message' listener (history)
    audioChunks,  \* audioChunks[r]: the closure's audioChunks array
    timestamps,   \* timestamps[r]: the closure's timestamps array
    promise,      \* promise[r]: the promise returned by generateAudioWithTimestamps
    cpc,          \* cpc[r]: position of the async 'close' listener
    audioBuffer,  \* audioBuffer[r]: Buffer.concat(audioChunks) taken at close
    fileName,     \* fileName[r]: storage key computed at close
    putCalls,     \* putCalls[r]: PutObjectCommands sent by the request
    s3,           \* s3: stored objects, a set of [key, body]
    updateCalls,  \* updateCalls[r]: airtable.update calls of the request
    airtable,     \* airtable: the record's written fields
    now,          \* now: Date.now(), in milliseconds
    crashed,      \* crashed: an exception escaped an event listener
    timer,        \* timer[r]: the setTimeout of the delayed-handshake revision
    sendStates    \* sendStates[r]: the socket's state at each send call (history)

vars == <<req, hpc, responses, findCalls, script, sock, events, sent, inbox,
          audioChunks, timestamps, promise, cpc, audioBuffer, fileName,
          putCalls, s3, updateCalls, airtable, now, crashed, timer, sendStates>>

\* ---------------------------------------------------------------- bounds
MaxMsgs == 3
MaxMsgsConc == 2
MaxClock == 1

\* ---------------------------------------------------------------- inputs
Single == {1}
Pair == {1, 2}

Methods == {"POST", "GET"}

\* req.body: missing, {} , {recordId: ""}, {recordId: "rec1"}
NoBody == [present |-> FALSE, hasRecordId |-> FALSE, recordId |-> ""]
Bodies == {NoBody,
           [present |-> TRUE, hasRecordId |-> FALSE, recordId |-> ""],
           [present |-> TRUE, hasRecordId |-> TRUE, recordId |-> ""],
           [present |-> TRUE, hasRecordId |-> TRUE, recordId |-> "rec1"]}

NoReq == [method |-> "none", body |-> NoBody]

\* record.get("Script"): undefined, "", whitespace only, a real script
NoScript == [defined |-> FALSE, text |-> ""]
Scripts == {NoScript,
            [defined |-> TRUE, text |-> ""],
            [defined |-> TRUE, text |-> " "],
            [defined |-> TRUE, text |-> "hi"]}

\* base64 strings as sequences of sextets, padding dropped: "QQ==", "QUI="
B64QQ == <<16, 16>>
B64QUI == <<16, 20, 8>>

AbsentAudio == [kind |-> "absent", b64 |-> <<>>]
NullAudio == [kind |-> "null", b64 |-> <<>>]
StrAudio(b64) == [kind |-> "str", b64 |-> b64]

AbsentAlign == [kind |-> "absent", val |-> 0]
NullAlign == [kind |-> "null", val |-> 0]
ObjAlign(val) == [kind |-> "obj", val |-> val]

\* a JSON object with the two fields the listener reads
Msg(audio, alignment) == [json |-> TRUE, audio |-> audio, alignment |-> alignment]
\* a payload that is not JSON text
Garbage == [json |-> FALSE, audio |-> AbsentAudio, alignment |-> AbsentAlign]

Messages ==
    {Garbage,
     Msg(AbsentAudio, AbsentAlign),
     Msg(NullAudio, NullAlign),
     Msg(StrAudio(B64QQ), AbsentAlign),
     Msg(StrAudio(B64QUI), AbsentAlign),
     Msg(StrAudio(B64QQ), ObjAlign(1)),
     Msg(StrAudio(B64QUI), NullAlign),
     Msg(StrAudio(<<>>), ObjAlign(2)),
     Msg(AbsentAudio, ObjAlign(1)),
     Msg(NullAudio, ObjAlign(2))}

MessagesConc ==
    {Garbage,
     Msg(NullAudio, NullAlign),
     Msg(StrAudio(B64QQ), AbsentAlign),
     Msg(StrAudio(B64QUI), ObjAlign(1)),
     Msg(AbsentAudio, ObjAlign(2))}

\* ------------------------------------------------------------- helpers
\* Buffer.from(s, 'base64'): four sextets give three bytes, a tail of three
\* gives two, a tail of two gives one, a tail of one gives none
RECURSIVE B64Decode(_)
B64Decode(s) ==
    IF Len(s) >= 4
    THEN <<s[1] * 4 + (s[2] \div 16),
           (s[2] % 16) * 16 + (s[3] \div 4),
           (s[3] % 4) * 64 + s[4]>> \o B64Decode(SubSeq(s, 5, Len(s)))
    ELSE IF Len(s) = 3
    THEN <<s[1] * 4 + (s[2] \div 16), (s[2] % 16) * 16 + (s[3] \div 4)>>
    ELSE IF Len(s) = 2
    THEN <<s[1] * 4 + (s[2] \div 16)>>
    ELSE <<>>

\* Buffer.concat(list)
RECURSIVE BufferConcat(_)
BufferConcat(list) ==
    IF list = <<>> THEN <<>> ELSE Head(list) \o BufferConcat(Tail(list))

\* JavaScript truthiness of data.audio, data.alignment, scriptText, recordId
AudioTruthy(a) == a.kind = "str" /\ a.b64 # <<>>
AlignTruthy(a) == a.kind = "obj"
ScriptTruthyDefined(s) == s.defined
ScriptTruthy(s) == s.defined /\ s.text # ""
RecordIdTruthy(b) == b.hasRecordId /\ b.recordId # ""

\* req.method !== "POST"
MethodAllowedAny(m) == m \in {"POST", "GET"}
MethodAllowed(m) == m = "POST"

\* `audio/${recordId}-${Date.now()}.mp3`
NoFile == [recordId |-> "", millis |-> -1]
FileName(recordId, millis) == [recordId |-> recordId, millis |-> millis]

\* `https://${bucket}.s3.${region}.amazonaws.com/${fileName}`
NoUrl == [bucket |-> "", region |-> "", key |-> NoFile]
AudioUrlOfRecord(key) ==
    [bucket |-> "bucket", region |-> "region",
     key |-> [recordId |-> key.recordId, millis |-> 0]]

AudioUrl(key) == [bucket |-> "bucket", region |-> "region", key |-> key]

\* JSON.stringify(timestamps, null, 2): the text of an array whose items are
\* the serialised alignment objects
NoJson == [text |-> "", items |-> <<>>]
JSONStringify(ts) == [text |-> "array", items |-> [i \in 1..Len(ts) |-> ts[i].val]]

\* the three messages of the 'open' listener
BosMessage == [text |-> " ", voice_settings |-> TRUE, flush |-> FALSE]
TextMessageNoFlush(text) == [text |-> text, voice_settings |-> FALSE, flush |-> FALSE]

TextMessage(text) == [text |-> text, voice_settings |-> FALSE, flush |-> TRUE]
EosMessage == [text |-> "", voice_settings |-> FALSE, flush |-> FALSE]

\* the promise of generateAudioWithTimestamps and its settled values
NoValue == [audioUrl |-> NoUrl, timestamps |-> <<>>, error |-> ""]
NoPromise == [state |-> "none", value |-> NoValue]
Pending == [state |-> "pending", value |-> NoValue]
Fulfilled(audioUrl, ts) ==
    [state |-> "fulfilled",
     value |-> [audioUrl |-> audioUrl, timestamps |-> ts, error |-> ""]]
Rejected(error) ==
    [state |-> "rejected",
     value |-> [audioUrl |-> NoUrl, timestamps |-> <<>>, error |-> error]]

\* resolve(v) / reject(e): only the first call settles the promise
SettlePromiseOverwrite(p, outcome) == outcome
SettlePromise(p, outcome) == IF p.state = "pending" THEN outcome ELSE p

Reqs == DOMAIN hpc
Delivered(r) == Len(inbox[r])
TotalDelivered == IF Reqs = Single THEN Delivered(1) ELSE Delivered(1) + Delivered(2)
Budget == IF Reqs = Single THEN MaxMsgs ELSE MaxMsgsConc

\* ---------------------------------------------------------------- Init
InitFor(R) ==
    /\ req = [r \in R |-> NoReq]
    /\ hpc = [r \in R |-> "start"]
    /\ responses = [r \in R |-> <<>>]
    /\ findCalls = [r \in R |-> 0]
    /\ script = [r \in R |-> NoScript]
    /\ sock = [r \in R |-> "none"]
    /\ events = [r \in R |-> <<>>]
    /\ sent = [r \in R |-> <<>>]
    /\ inbox = [r \in R |-> <<>>]
    /\ audioChunks = [r \in R |-> <<>>]
    /\ timestamps = [r \in R |-> <<>>]
    /\ promise = [r \in R |-> NoPromise]
    /\ cpc = [r \in R |-> "idle"]
    /\ audioBuffer = [r \in R |-> <<>>]
    /\ fileName = [r \in R |-> NoFile]
    /\ putCalls = [r \in R |-> <<>>]
    /\ s3 = {}
    /\ updateCalls = [r \in R |-> <<>>]
    /\ airtable = [AudioURL |-> NoUrl, TimestampsJSON |-> NoJson]
    /\ now = 0
    /\ crashed = FALSE
    /\ timer = [r \in R |-> "idle"]
    /\ sendStates = [r \in R |-> <<>>]

Init == InitFor(Single)
InitConc == InitFor(Pair)

sessionVars == <<sock, events, sent, inbox, audioChunks, timestamps, cpc,
                 audioBuffer, fileName, putCalls, s3, timer, sendStates>>

\* ------------------------------------------------------------- handler
Response(status, audioUrl, error) ==
    [status |-> status, audioUrl |-> audioUrl, error |-> error]

Respond(r, status, audioUrl, error) ==
    responses' = [responses EXCEPT ![r] = Append(@, Response(status, audioUrl, error))]

\* handler up to its first await: method check, body destructuring,
\* recordId check, airtable.find(recordId)
Handler(r) ==
    /\ ~crashed
    /\ hpc[r] = "start"
    /\ \E m \in Methods, b \in Bodies :
        /\ req' = [req EXCEPT ![r] = [method |-> m, body |-> b]]
        /\ IF ~MethodAllowed(m)
           THEN /\ Respond(r, 405, NoUrl, "")
                /\ hpc' = [hpc EXCEPT ![r] = "done"]
                /\ UNCHANGED findCalls
           ELSE IF ~b.present
           THEN \* const { recordId } = req.body throws a TypeError outside the try
                /\ hpc' = [hpc EXCEPT ![r] = "threw"]
                /\ UNCHANGED <<responses, findCalls>>
           ELSE IF ~RecordIdTruthy(b)
           THEN /\ Respond(r, 400, NoUrl, "")
                /\ hpc' = [hpc EXCEPT ![r] = "done"]
                /\ UNCHANGED findCalls
           ELSE /\ hpc' = [hpc EXCEPT ![r] = "find"]
                /\ findCalls' = [findCalls EXCEPT ![r] = @ + 1]
                /\ UNCHANGED responses
    /\ UNCHANGED <<script, promise, updateCalls, airtable, now, crashed, sessionVars>>

\* airtable.find resolves; record.get("Script"); then either the throw of
\* the empty-script check or the call of generateAudioWithTimestamps, whose
\* executor constructs the WebSocket
FindOk(r) ==
    /\ ~crashed
    /\ hpc[r] = "find"
    /\ \E s \in Scripts :
        /\ script' = [script EXCEPT ![r] = s]
        /\ IF ~ScriptTruthy(s)
           THEN /\ Respond(r, 500, NoUrl, "EmptyScript")
                /\ hpc' = [hpc EXCEPT ![r] = "done"]
                /\ UNCHANGED <<sock, promise>>
           ELSE /\ hpc' = [hpc EXCEPT ![r] = "session"]
                /\ sock' = [sock EXCEPT ![r] = "connecting"]
                /\ promise' = [promise EXCEPT ![r] = Pending]
                /\ UNCHANGED responses
    /\ UNCHANGED <<req, findCalls, events, sent, inbox, audioChunks, timestamps,
                   cpc, audioBuffer, fileName, putCalls, s3, updateCalls,
                   airtable, now, crashed,
                   timer, sendStates>>

\* airtable.find rejects
FindFail(r) ==
    /\ ~crashed
    /\ hpc[r] = "find"
    /\ Respond(r, 500, NoUrl, "FindError")
    /\ hpc' = [hpc EXCEPT ![r] = "done"]
    /\ UNCHANGED <<req, findCalls, script, promise, updateCalls, airtable, now,
                   crashed, sessionVars>>

\* resolve/reject called by a listener, and the handler's continuation after
\* `await generateAudioWithTimestamps(...)`: airtable.update on fulfilment,
\* the catch block on rejection
Settle(r, outcome) ==
    /\ promise' = [promise EXCEPT ![r] = SettlePromise(@, outcome)]
    /\ IF promise[r].state = "pending" /\ hpc[r] = "session"
       THEN IF outcome.state = "fulfilled"
            THEN /\ hpc' = [hpc EXCEPT ![r] = "update"]
                 /\ updateCalls' = [updateCalls EXCEPT ![r] = Append(@,
                        [recordId |-> req[r].body.recordId,
                         AudioURL |-> outcome.value.audioUrl,
                         TimestampsJSON |-> JSONStringify(outcome.value.timestamps)])]
                 /\ UNCHANGED responses
            ELSE /\ hpc' = [hpc EXCEPT ![r] = "done"]
                 /\ Respond(r, 500, NoUrl, outcome.value.error)
                 /\ UNCHANGED updateCalls
       ELSE UNCHANGED <<hpc, responses, updateCalls>>

\* airtable.update resolves: the record is written, then res.status(200)
UpdateOk(r) ==
    /\ ~crashed
    /\ hpc[r] = "update"
    /\ LET u == updateCalls[r][Len(updateCalls[r])] IN
        /\ airtable' = [AudioURL |-> u.AudioURL, TimestampsJSON |-> u.TimestampsJSON]
        /\ Respond(r, 200, u.AudioURL, "")
    /\ hpc' = [hpc EXCEPT ![r] = "done"]
    /\ UNCHANGED <<req, findCalls, script, promise, updateCalls, now, crashed,
                   sessionVars>>

UpdateFailDeletes(r) ==
    /\ ~crashed
    /\ hpc[r] = "update"
    /\ Respond(r, 500, NoUrl, "UpdateError")
    /\ hpc' = [hpc EXCEPT ![r] = "done"]
    /\ s3' = {o \in s3 : o.key # fileName[r]}
    /\ UNCHANGED <<req, findCalls, script, promise, updateCalls, airtable, now,
                   crashed, sock, events, sent, inbox, audioChunks, timestamps,
                   cpc, audioBuffer, fileName, putCalls,
                   timer, sendStates>>

\* airtable.update rejects
UpdateFail(r) ==
    /\ ~crashed
    /\ hpc[r] = "update"
    /\ Respond(r, 500, NoUrl, "UpdateError")
    /\ hpc' = [hpc EXCEPT ![r] = "done"]
    /\ UNCHANGED <<req, findCalls, script, promise, updateCalls, airtable, now,
                   crashed, sessionVars>>

\* ------------------------------------------------------------- session
\* 'open' listener: the three sends
SocketOpen(r) ==
    /\ ~crashed
    /\ sock[r] = "connecting"
    /\ sock' = [sock EXCEPT ![r] = "open"]
    /\ events' = [events EXCEPT ![r] = Append(@, "open")]
    /\ sent' = [sent EXCEPT ![r] =
                    @ \o <<BosMessage, TextMessage(script[r].text), EosMessage>>]
    /\ sendStates' = [sendStates EXCEPT ![r] = @ \o <<"open", "open", "open">>]
    /\ UNCHANGED <<req, hpc, responses, findCalls, script, inbox, audioChunks,
                   timestamps, promise, cpc, audioBuffer, fileName, putCalls, s3,
                   updateCalls, airtable, now, crashed, timer>>

PushAudioUnlessAlignment(chunks, data) ==
    IF AudioTruthy(data.audio) /\ ~AlignTruthy(data.alignment)
    THEN Append(chunks, B64Decode(data.audio.b64)) ELSE chunks

\* if (data.audio) audioChunks.push(Buffer.from(data.audio, 'base64'))
PushAudio(chunks, data) ==
    IF AudioTruthy(data.audio) THEN Append(chunks, B64Decode(data.audio.b64)) ELSE chunks

\* if (data.alignment) timestamps.push(data.alignment)
PushAlignmentElseIf(ts, data) ==
    IF ~AudioTruthy(data.audio) /\ AlignTruthy(data.alignment)
    THEN Append(ts, data.alignment) ELSE ts
PushAlignment(ts, data) ==
    IF AlignTruthy(data.alignment) THEN Append(ts, data.alignment) ELSE ts

\* the audioChunks and timestamps arrays a session's listeners close over are
\* the ones its own executor created
ClosureModuleLevel(r) == 1
Closure(r) == r

SocketMessageSettles(r, m) ==
    /\ ~crashed
    /\ sock[r] = "open"
    /\ TotalDelivered < Budget
    /\ inbox' = [inbox EXCEPT ![r] = Append(@, m)]
    /\ IF ~m.json
       THEN /\ crashed' = TRUE
            /\ UNCHANGED <<audioChunks, timestamps, promise, hpc, responses, updateCalls>>
       ELSE /\ audioChunks' = [audioChunks EXCEPT ![Closure(r)] = PushAudio(@, m)]
            /\ timestamps' = [timestamps EXCEPT ![Closure(r)] = PushAlignment(@, m)]
            /\ IF m.audio.kind = "null"
               THEN Settle(r, Rejected("EmptyAudio"))
               ELSE UNCHANGED <<promise, hpc, responses, updateCalls>>
            /\ UNCHANGED crashed
    /\ UNCHANGED <<req, findCalls, script, sock, events, sent,
                   cpc, audioBuffer, fileName, putCalls, s3, airtable, now,
                   timer, sendStates>>

\* 'message' listener: JSON.parse(message) throws on a payload that is not
\* JSON; the exception leaves the listener uncaught and ends the process
SocketMessage(r, m) ==
    /\ ~crashed
    /\ sock[r] = "open"
    /\ TotalDelivered < Budget
    /\ inbox' = [inbox EXCEPT ![r] = Append(@, m)]
    /\ IF ~m.json
       THEN /\ crashed' = TRUE
            /\ UNCHANGED <<audioChunks, timestamps>>
       ELSE /\ audioChunks' = [audioChunks EXCEPT ![Closure(r)] = PushAudio(@, m)]
            /\ timestamps' = [timestamps EXCEPT ![Closure(r)] = PushAlignment(@, m)]
            /\ UNCHANGED crashed
    /\ UNCHANGED <<req, hpc, responses, findCalls, script, sock, events, sent,
                   promise, cpc, audioBuffer, fileName, putCalls, s3,
                   updateCalls, airtable, now,
                   timer, sendStates>>

\* 'error' listener: reject(error)
SocketError(r) ==
    /\ ~crashed
    /\ sock[r] \in {"connecting", "open"}
    /\ sock' = [sock EXCEPT ![r] = "errored"]
    /\ events' = [events EXCEPT ![r] = Append(@, "error")]
    /\ Settle(r, Rejected("ConnectionError"))
    /\ UNCHANGED <<req, findCalls, script, sent, inbox, audioChunks, timestamps,
                   cpc, audioBuffer, fileName, putCalls, s3, airtable, now, crashed,
                   timer, sendStates>>

\* if (audioChunks.length === 0)
NoAudioNever(chunks) == FALSE
NoAudio(chunks) == Len(chunks) = 0

\* 'close' listener up to its await: the empty check, Buffer.concat, the key,
\* s3Client.send(new PutObjectCommand(...))
SocketClose(r) ==
    /\ ~crashed
    /\ sock[r] \in {"open", "errored"}
    /\ sock' = [sock EXCEPT ![r] = "closed"]
    /\ events' = [events EXCEPT ![r] = Append(@, "close")]
    /\ IF NoAudio(audioChunks[r])
       THEN /\ Settle(r, Rejected("EmptyAudio"))
            /\ cpc' = [cpc EXCEPT ![r] = "done"]
            /\ UNCHANGED <<audioBuffer, fileName, putCalls>>
       ELSE /\ audioBuffer' = [audioBuffer EXCEPT ![r] = BufferConcat(audioChunks[r])]
            /\ fileName' = [fileName EXCEPT ![r] = FileName(req[r].body.recordId, now)]
            /\ putCalls' = [putCalls EXCEPT ![r] = Append(@,
                    [Key |-> FileName(req[r].body.recordId, now),
                     Body |-> BufferConcat(audioChunks[r]),
                     ContentType |-> "audio/mpeg"])]
            /\ cpc' = [cpc EXCEPT ![r] = "put"]
            /\ UNCHANGED <<promise, hpc, responses, updateCalls>>
    /\ UNCHANGED <<req, findCalls, script, sent, inbox, audioChunks, timestamps,
                   s3, airtable, now, crashed,
                   timer, sendStates>>

\* s3Client.send resolves: the object is stored, then resolve({audioUrl, timestamps})
S3Ok(r) ==
    /\ ~crashed
    /\ cpc[r] = "put"
    /\ s3' = {o \in s3 : o.key # fileName[r]} \cup
                {[key |-> fileName[r], body |-> audioBuffer[r]]}
    /\ Settle(r, Fulfilled(AudioUrl(fileName[r]), timestamps[r]))
    /\ cpc' = [cpc EXCEPT ![r] = "done"]
    /\ UNCHANGED <<req, findCalls, script, sock, events, sent, inbox, audioChunks,
                   timestamps, audioBuffer, fileName, putCalls, airtable, now,
                   crashed,
                   timer, sendStates>>

S3FailResolves(r) ==
    /\ ~crashed
    /\ cpc[r] = "put"
    /\ Settle(r, Fulfilled(AudioUrl(fileName[r]), timestamps[r]))
    /\ cpc' = [cpc EXCEPT ![r] = "failed"]
    /\ UNCHANGED <<req, findCalls, script, sock, events, sent, inbox, audioChunks,
                   timestamps, audioBuffer, fileName, putCalls, s3, airtable, now,
                   crashed,
                   timer, sendStates>>

\* s3Client.send rejects: the catch block calls reject(error)
S3Fail(r) ==
    /\ ~crashed
    /\ cpc[r] = "put"
    /\ Settle(r, Rejected("S3Error"))
    /\ cpc' = [cpc EXCEPT ![r] = "failed"]
    /\ UNCHANGED <<req, findCalls, script, sock, events, sent, inbox, audioChunks,
                   timestamps, audioBuffer, fileName, putCalls, s3, airtable, now,
                   crashed,
                   timer, sendStates>>

\* the millisecond clock read by Date.now()
Tick ==
    /\ ~crashed
    /\ now < MaxClock
    /\ now' = now + 1
    /\ UNCHANGED <<req, hpc, responses, findCalls, script, promise, updateCalls,
                   airtable, crashed, sessionVars>>

\* ------------------------------------------------------ specifications
Next ==
    \/ \E r \in Single : Handler(r)
    \/ \E r \in Single : FindOk(r)
    \/ \E r \in Single : FindFail(r)
    \/ \E r \in Single : SocketOpen(r)
    \/ \E r \in Single, m \in Messages : SocketMessage(r, m)
    \/ \E r \in Single : SocketError(r)
    \/ \E r \in Single : SocketClose(r)
    \/ \E r \in Single : S3Ok(r)
    \/ \E r \in Single : S3Fail(r)
    \/ \E r \in Single : UpdateOk(r)
    \/ \E r \in Single : UpdateFail(r)
    \/ Tick

Spec == Init /\ [][Next]_vars

\* ------------------------------------------------------------- liveness
\* what the event loop and the libraries guarantee: a ready continuation
\* runs, the Airtable and S3 calls complete one way or the other, a
\* connection attempt ends in 'open' or 'error', and ws emits 'close' after
\* 'error'; the provider is not obliged to close or fail an open connection
Fairness ==
    \A r \in Single :
        /\ WF_vars(Handler(r))
        /\ WF_vars(FindOk(r) \/ FindFail(r))
        /\ WF_vars(sock[r] = "connecting" /\ (SocketOpen(r) \/ SocketError(r)))
        /\ WF_vars(sock[r] = "errored" /\ SocketClose(r))
        /\ WF_vars(S3Ok(r) \/ S3Fail(r))
        /\ WF_vars(UpdateOk(r) \/ UpdateFail(r))

SpecLive == Init /\ [][Next]_vars /\ Fairness

\* two requests in flight in the same process
NextConc ==
    \/ \E r \in Pair : Handler(r)
    \/ \E r \in Pair : FindOk(r)
    \/ \E r \in Pair : FindFail(r)
    \/ \E r \in Pair : SocketOpen(r)
    \/ \E r \in Pair, m \in MessagesConc : SocketMessage(r, m)
    \/ \E r \in Pair : SocketError(r)
    \/ \E r \in Pair : SocketClose(r)
    \/ \E r \in Pair : S3Ok(r)
    \/ \E r \in Pair : S3Fail(r)
    \/ \E r \in Pair : UpdateOk(r)
    \/ \E r \in Pair : UpdateFail(r)
    \/ Tick

SpecConc == InitConc /\ [][NextConc]_vars
\* ------------------------------------- the delayed-handshake revision
\* (generate-audio.js lines 64-153; its 'message' listener reads
\* data.audio_chunk where the later revision reads data.audio)

\* { text: text, try_trigger_generation: true }: no flush request
TriggerMessage(text) == [text |-> text, voice_settings |-> FALSE, flush |-> FALSE]

\* 'open' listener: setTimeout(..., 100)
SocketOpenDelay(r) ==
    /\ ~crashed
    /\ sock[r] = "connecting"
    /\ sock' = [sock EXCEPT ![r] = "open"]
    /\ events' = [events EXCEPT ![r] = Append(@, "open")]
    /\ timer' = [timer EXCEPT ![r] = "armed"]
    /\ UNCHANGED <<req, hpc, responses, findCalls, script, sent, inbox,
                   audioChunks, timestamps, promise, cpc, audioBuffer, fileName,
                   putCalls, s3, updateCalls, airtable, now, crashed, sendStates>>

\* the timer callback: the three sends, whatever the socket's state is by
\* then.  On a socket that is no longer open, send either throws (the
\* exception leaves the timer callback uncaught, after the first send) or
\* drops the data, depending on the version of ws
TimerFire(r) ==
    /\ ~crashed
    /\ timer[r] = "armed"
    /\ timer' = [timer EXCEPT ![r] = "fired"]
    /\ IF sock[r] = "open"
       THEN /\ sent' = [sent EXCEPT ![r] =
                    @ \o <<BosMessage, TriggerMessage(script[r].text), EosMessage>>]
            /\ sendStates' = [sendStates EXCEPT ![r] = @ \o <<"open", "open", "open">>]
            /\ UNCHANGED crashed
       ELSE \/ /\ sendStates' = [sendStates EXCEPT ![r] = Append(@, sock[r])]
               /\ crashed' = TRUE
               /\ UNCHANGED sent
            \/ /\ sendStates' = [sendStates EXCEPT ![r] = @ \o <<sock[r], sock[r], sock[r]>>]
               /\ UNCHANGED <<sent, crashed>>
    /\ UNCHANGED <<req, hpc, responses, findCalls, script, sock, events, inbox,
                   audioChunks, timestamps, promise, cpc, audioBuffer, fileName,
                   putCalls, s3, updateCalls, airtable, now>>

NextDelay ==
    \/ \E r \in Single : Handler(r)
    \/ \E r \in Single : FindOk(r)
    \/ \E r \in Single : FindFail(r)
    \/ \E r \in Single : SocketOpenDelay(r)
    \/ \E r \in Single : TimerFire(r)
    \/ \E r \in Single, m \in Messages : SocketMessage(r, m)
    \/ \E r \in Single : SocketError(r)
    \/ \E r \in Single : SocketClose(r)
    \/ \E r \in Single : S3Ok(r)
    \/ \E r \in Single : S3Fail(r)
    \/ \E r \in Single : UpdateOk(r)
    \/ \E r \in Single : UpdateFail(r)
    \/ Tick

SpecDelay == Init /\ [][NextDelay]_vars

\* ---------------------------------------------------------- properties
Range(seq) == {seq[i] : i \in 1..Len(seq)}
Closed(r) == sock[r] = "closed"

\* what a reader of the inbox expects in the two outputs, by field kind
RECURSIVE AudioOfKinds(_, _)
AudioOfKinds(msgs, kinds) ==
    IF msgs = <<>> THEN <<>>
    ELSE (IF Head(msgs).json /\ Head(msgs).audio.kind \in kinds
          THEN B64Decode(Head(msgs).audio.b64) ELSE <<>>)
         \o AudioOfKinds(Tail(msgs), kinds)

RECURSIVE AlignmentsOfKinds(_, _)
AlignmentsOfKinds(msgs, kinds) ==
    IF msgs = <<>> THEN <<>>
    ELSE (IF Head(msgs).json /\ Head(msgs).alignment.kind \in kinds
          THEN <<Head(msgs).alignment>> ELSE <<>>)
         \o AlignmentsOfKinds(Tail(msgs), kinds)

AssembledFrom(r, audioKinds, alignKinds) ==
    /\ cpc[r] \in {"put", "done", "failed"} /\ putCalls[r] # <<>>
          => audioBuffer[r] = AudioOfKinds(inbox[r], audioKinds)
    /\ putCalls[r] = <<>> => AudioOfKinds(inbox[r], audioKinds) = <<>>
    /\ timestamps[r] = AlignmentsOfKinds(inbox[r], alignKinds)

\* C1 (as stated): at close the audio buffer is the concatenation, in arrival
\* order, of the decoded audio of every message that carried an audio field,
\* and timestamps holds the alignment value of every message that carried an
\* alignment field
C1_EveryCarriedField ==
    \A r \in Reqs : Closed(r) =>
        AssembledFrom(r, {"null", "str"}, {"null", "obj"})

\* C1 (amended): at close the audio buffer is the concatenation, in arrival
\* order, of the decoded audio of exactly the messages whose audio field is a
\* string, and timestamps holds, in arrival order, exactly the alignment
\* values that are not null; absent and null fields contribute nothing
C1_AssembledInArrivalOrder ==
    \A r \in Reqs : Closed(r) => AssembledFrom(r, {"str"}, {"obj"})

C1_Witness ==
    \E r \in Reqs :
        /\ Closed(r) /\ cpc[r] = "put"
        /\ Len(inbox[r]) = 3
        /\ audioBuffer[r] = <<65, 66, 65>>
        /\ timestamps[r] = <<ObjAlign(1)>>
        /\ Msg(NullAudio, NullAlign) \in Range(inbox[r])

\* C2 (as stated): once an 'error' event occurred the session has failed with
\* the connection error and the request has sent no object to storage and
\* made no write-back
C2_NoStorageAfterError ==
    \A r \in Reqs : "error" \in Range(events[r]) =>
        /\ promise[r] = Rejected("ConnectionError")
        /\ putCalls[r] = <<>>
        /\ updateCalls[r] = <<>>

\* C3 (as stated): a session closed with zero audio fragments is rejected with
\* the empty-audio error and has put nothing to storage
C3_EmptyAudioError ==
    \A r \in Reqs : Closed(r) /\ audioChunks[r] = <<>> =>
        /\ promise[r] = Rejected("EmptyAudio")
        /\ putCalls[r] = <<>>

\* C3 (amended): a session closed with zero audio fragments is rejected, never
\* fulfilled, whatever else it received: with the empty-audio error, or with
\* the connection error when an 'error' event preceded the close; it has put
\* nothing to storage
C3_EmptyAudioFails ==
    \A r \in Reqs : Closed(r) /\ audioChunks[r] = <<>> =>
        /\ promise[r] = IF "error" \in Range(events[r])
                         THEN Rejected("ConnectionError")
                         ELSE Rejected("EmptyAudio")
        /\ putCalls[r] = <<>>

C3_Witness ==
    \E r \in Reqs :
        /\ Closed(r) /\ audioChunks[r] = <<>>
        /\ Len(timestamps[r]) = 2
        /\ Msg(AbsentAudio, AbsentAlign) \in Range(inbox[r])
        /\ promise[r] = Rejected("EmptyAudio")
        /\ responses[r] = <<Response(500, NoUrl, "EmptyAudio")>>

\* C4 (as stated): a payload that is not JSON is discarded: the session goes
\* on, and the payload adds nothing to the audio fragments
C4_UnparseableDiscarded ==
    \A r \in Reqs : (\E i \in 1..Len(inbox[r]) : ~inbox[r][i].json) =>
        /\ ~crashed
        /\ BufferConcat(audioChunks[r]) = AudioOfKinds(inbox[r], {"str"})

\* C5: once the session's promise is settled, no later resolve or reject
\* replaces its outcome
C5_SettledOnce ==
    [][\A r \in Reqs : promise[r].state \in {"fulfilled", "rejected"}
            => promise'[r] = promise[r]]_vars

C5_Witness ==
    \E r \in Reqs :
        /\ events[r] = <<"open", "error", "close">>
        /\ cpc[r] = "done" /\ putCalls[r] # <<>>
        /\ promise[r] = Rejected("ConnectionError")
        /\ responses[r] = <<Response(500, NoUrl, "ConnectionError")>>

NoCollaborator(r) ==
    /\ findCalls[r] = 0
    /\ sock[r] = "none" /\ promise[r] = NoPromise
    /\ putCalls[r] = <<>>
    /\ updateCalls[r] = <<>>

\* C6 (as stated): a POST without a usable recordId (no body, no recordId, an
\* empty recordId) is answered 400 and no collaborator is invoked
C6_MissingRecordId400 ==
    \A r \in Reqs : req[r].method = "POST" /\ ~RecordIdTruthy(req[r].body) =>
        /\ responses[r] = <<Response(400, NoUrl, "")>>
        /\ NoCollaborator(r)

\* C7: a request whose method is not POST is answered 405 whatever its body,
\* and no collaborator is invoked
C7_NonPost405 ==
    \A r \in Reqs : req[r].method \notin {"none", "POST"} =>
        /\ responses[r] = <<Response(405, NoUrl, "")>>
        /\ NoCollaborator(r)

C7_Witness ==
    \E r \in Reqs :
        /\ req[r].method = "GET" /\ RecordIdTruthy(req[r].body)
        /\ hpc[r] = "done"

\* C8: when the storage put has failed, the request has failed with a 500 and
\* has made no write-back
C8_NoWriteBackAfterPutFailure ==
    \A r \in Reqs : cpc[r] = "failed" =>
        /\ promise[r].state = "rejected"
        /\ hpc[r] = "done"
        /\ Len(responses[r]) = 1 /\ responses[r][1].status = 500
        /\ updateCalls[r] = <<>>

C8_Witness ==
    \E r \in Reqs :
        /\ cpc[r] = "failed"
        /\ promise[r] = Rejected("S3Error")
        /\ responses[r] = <<Response(500, NoUrl, "S3Error")>>

\* C9 (as stated): two requests with the same recordId never compute the same
\* storage key
C9_DistinctKeys ==
    \A q, r \in Reqs :
        /\ q # r
        /\ fileName[q] # NoFile /\ fileName[r] # NoFile
        /\ req[q].body.recordId = req[r].body.recordId
        => fileName[q] # fileName[r]

Fetched(r) == findCalls[r] > 0 /\ hpc[r] # "find"
FailedBeforeSession(r) ==
    /\ hpc[r] = "done"
    /\ Len(responses[r]) = 1 /\ responses[r][1].status = 500
    /\ sock[r] = "none" /\ promise[r] = NoPromise /\ sent[r] = <<>>
    /\ putCalls[r] = <<>>
    /\ updateCalls[r] = <<>>

\* C10 (as stated): when the fetched Script is absent or blank (empty or only
\* white space) the request fails with no connection, no put, no write-back
C10_BlankScriptFails ==
    \A r \in Reqs :
        Fetched(r) /\ (~script[r].defined \/ script[r].text \in {"", " "})
            => FailedBeforeSession(r)

\* C10 (amended): when the fetched Script is absent or the empty string the
\* request fails with no connection, no put, no write-back
C10_EmptyScriptFails ==
    \A r \in Reqs :
        Fetched(r) /\ (~script[r].defined \/ script[r].text = "")
            => FailedBeforeSession(r)

C10_Witness ==
    \E r \in Reqs :
        /\ Fetched(r) /\ script[r] = [defined |-> TRUE, text |-> ""]
        /\ responses[r] = <<Response(500, NoUrl, "EmptyScript")>>

\* a failure of the request after its validation: the record fetch failed or
\* gave no script, the session failed (its promise was rejected, or a payload
\* made its 'message' listener throw), the storage put failed, or the
\* write-back failed
FailedAfterValidation(r) ==
    \/ Fetched(r) /\ sock[r] = "none"
    \/ promise[r].state = "rejected"
    \/ \E i \in 1..Len(inbox[r]) : ~inbox[r][i].json
    \/ cpc[r] = "failed"
    \/ hpc[r] = "done" /\ updateCalls[r] # <<>> /\ \A i \in 1..Len(responses[r]) :
            responses[r][i].status # 200

\* C11 (as stated): every failure after request validation is answered with
\* one 500 response that carries the failure description, never with a 200 or
\* another status
C11_FailuresAnswered500 ==
    \A r \in Reqs : FailedAfterValidation(r) =>
        /\ Len(responses[r]) = 1
        /\ responses[r][1].status = 500
        /\ responses[r][1].error # ""

Last(seq) == seq[Len(seq)]
Stored(r) == \E o \in s3 : o.key = fileName[r]

\* C12: the step that ends the wait for airtable.update after a successful put
\* either writes the record and answers 200, or (the write-back failed)
\* answers 500 and leaves the stored objects and the record's Audio URL and
\* Timestamps JSON as they were, the request's object still in storage
C12_FailedWriteBackChangesNothing ==
    [][\A r \in Reqs : hpc[r] = "update" /\ hpc'[r] # "update" =>
        /\ Stored(r)
        /\ \/ /\ responses'[r] = Append(responses[r],
                        Response(200, Last(updateCalls[r]).AudioURL, ""))
              /\ airtable'.AudioURL = Last(updateCalls[r]).AudioURL
              /\ airtable'.TimestampsJSON = Last(updateCalls[r]).TimestampsJSON
              /\ s3' = s3
           \/ /\ responses'[r] = Append(responses[r], Response(500, NoUrl, "UpdateError"))
              /\ airtable' = airtable
              /\ s3' = s3]_vars

C12_Witness ==
    \E r \in Reqs :
        /\ responses[r] = <<Response(500, NoUrl, "UpdateError")>>
        /\ Stored(r)
        /\ airtable.AudioURL \notin {NoUrl, AudioUrl(fileName[r])}

\* C13: with two requests in flight, what a session has accumulated is at
\* every moment exactly the projection of the messages delivered on its own
\* connection, whatever was delivered to the other one
C13_SessionsIsolated ==
    \A r \in Reqs :
        /\ BufferConcat(audioChunks[r]) = AudioOfKinds(inbox[r], {"str"})
        /\ Len(audioChunks[r]) <= Len(inbox[r])
        /\ timestamps[r] = AlignmentsOfKinds(inbox[r], {"obj"})

C13_Witness ==
    /\ Reqs = Pair
    /\ sock[1] = "open" /\ sock[2] = "open"
    /\ inbox[1] = <<Msg(StrAudio(B64QQ), AbsentAlign)>>
    /\ inbox[2] = <<Msg(StrAudio(B64QUI), ObjAlign(1))>>
    /\ audioChunks[1] = <<<<65>>>> /\ timestamps[1] = <<>>
    /\ audioChunks[2] = <<<<65, 66>>>> /\ timestamps[2] = <<ObjAlign(1)>>

GrewBy(old, new, n) == Len(new) = Len(old) + n /\ SubSeq(new, 1, Len(old)) = old
Received(r) == Len(inbox'[r]) = Len(inbox[r]) + 1 /\ ~crashed'

\* C14 (as stated): a message contributes to at most one of the two lists
C14_AtMostOneList ==
    [][\A r \in Reqs :
        ~(Len(audioChunks'[r]) > Len(audioChunks[r])
            /\ Len(timestamps'[r]) > Len(timestamps[r]))]_vars

\* C14 (amended): a message contributes at most one entry to each of the two
\* lists, and the two tests are independent: a message with a string audio
\* field and a non-null alignment field adds one entry to both lists
C14_OneEntryPerList ==
    [][\A r \in Reqs : Received(r) =>
        LET m == Last(inbox'[r]) IN
        /\ GrewBy(audioChunks[r], audioChunks'[r],
                  IF m.audio.kind = "str" /\ m.audio.b64 # <<>> THEN 1 ELSE 0)
        /\ GrewBy(timestamps[r], timestamps'[r],
                  IF m.alignment.kind = "obj" THEN 1 ELSE 0)]_vars

C14_Witness ==
    \E r \in Reqs :
        /\ inbox[r] = <<Msg(StrAudio(B64QQ), ObjAlign(1))>>
        /\ audioChunks[r] = <<<<65>>>>
        /\ timestamps[r] = <<ObjAlign(1)>>

\* C15: nothing is sent before the 'open' event; from it on exactly three
\* messages have been sent, in this order: the configuration message (text
\* " " with the voice settings), the payload with the whole script and
\* flush: true, the end-of-stream message with empty text
C15_HandshakeOrder ==
    \A r \in Reqs :
        IF "open" \in Range(events[r])
        THEN /\ Len(sent[r]) = 3
             /\ sent[r][1] = [text |-> " ", voice_settings |-> TRUE, flush |-> FALSE]
             /\ sent[r][2] = [text |-> script[r].text, voice_settings |-> FALSE,
                              flush |-> TRUE]
             /\ sent[r][3] = [text |-> "", voice_settings |-> FALSE, flush |-> FALSE]
        ELSE sent[r] = <<>>

C15_Witness ==
    \E r \in Reqs :
        /\ events[r] = <<"open", "close">>
        /\ Len(sent[r]) = 3 /\ sent[r][2].text = "hi" /\ sent[r][2].flush
        /\ Len(inbox[r]) = 2

\* C16 (as stated): a request that has started its synthesis session
\* eventually sends a response, also when the provider never closes or fails
\* the connection
C16_EventuallyResponds ==
    \A r \in Single : (hpc[r] = "session") ~> (Len(responses[r]) > 0)

Settled(r) == promise[r].state \in {"fulfilled", "rejected"}

\* C17: a session that has been resolved, on whichever path, has its
\* connection closed then or eventually afterwards
C17_ConnectionEventuallyClosed ==
    \A r \in Single : Settled(r) ~> Closed(r)

C17_Witness ==
    \E r \in Reqs :
        /\ Settled(r) /\ Closed(r)
        /\ events[r] = <<"open", "error", "close">>
        /\ cpc[r] = "failed"

Answered200(r) == \E i \in 1..Len(responses[r]) : responses[r][i].status = 200
UrlOfKey(key) == [bucket |-> "bucket", region |-> "region", key |-> key]

\* C18: the write-back is called only after the put has succeeded, and a 200
\* is sent only after the write-back has succeeded too; the audioUrl of the
\* 200 is the Audio URL written to the record and is the address of the key
\* under which the request's audio buffer is stored
C18_OkOnlyAfterPutAndWriteBack ==
    \A r \in Reqs :
        /\ updateCalls[r] # <<>> =>
              /\ cpc[r] = "done"
              /\ putCalls[r] = <<[Key |-> fileName[r], Body |-> audioBuffer[r],
                                  ContentType |-> "audio/mpeg"]>>
              /\ [key |-> fileName[r], body |-> audioBuffer[r]] \in s3
        /\ Answered200(r) =>
              /\ responses[r] = <<Response(200, UrlOfKey(fileName[r]), "")>>
              /\ updateCalls[r] = <<[recordId |-> req[r].body.recordId,
                                     AudioURL |-> UrlOfKey(fileName[r]),
                                     TimestampsJSON |-> JSONStringify(timestamps[r])]>>
              /\ airtable.AudioURL = UrlOfKey(fileName[r])
              /\ airtable.TimestampsJSON = JSONStringify(timestamps[r])

C18_Witness ==
    \E r \in Reqs :
        /\ Answered200(r)
        /\ fileName[r] = [recordId |-> "rec1", millis |-> 1]
        /\ audioBuffer[r] = <<65, 65, 66>>
        /\ Len(timestamps[r]) = 1

\* C19 (as stated): a request never has two responses, and a request whose
\* handler has returned has exactly one
C19_ExactlyOneResponse ==
    \A r \in Reqs :
        /\ Len(responses[r]) <= 1
        /\ hpc[r] \in {"done", "threw"} => Len(responses[r]) = 1

\* C20 (as stated): every send of the handshake is made while the connection
\* is open; after an 'error' or 'close' during the grace delay no send is made
C20_SendsOnlyWhileOpen ==
    \A r \in Reqs : \A i \in 1..Len(sendStates[r]) : sendStates[r][i] = "open"
====
